---- MODULE Spec2Model ----
(***************************************************************************)
(* Model of the ML service: the request router                             *)
(* (ml_service/app/routes/semantic_search.py) and the lightweight          *)
(* ModelManager (ml_service/app/services/model_manager.py).                *)
(*                                                                         *)
(* Strings that the code only passes around (messages, queries) are TLA+   *)
(* strings.  A filename, which the code lowercases and matches by suffix,  *)
(* is a sequence of characters, each character a one-element token.        *)
(***************************************************************************)
EXTENDS Integers, Sequences, FiniteSets, TLC

\* Python's None.
None == "None"

(***************************************************************************)
(* Bounds.                                                                 *)
(***************************************************************************)
\* Number of requests that can be in flight at the same time.
NumRequests == 2

Slots == 1..NumRequests

VARIABLES
    model_manager,  \* the fields of the process-wide ModelManager instance
    returned,       \* the last ModelManager call: method, return value, printed lines
    pc,             \* per request slot: "idle", "received" or "done"
    request,        \* per request slot: the parsed request (endpoint and body)
    response        \* per request slot: the outcome of the handler

vars == <<model_manager, returned, pc, request, response>>

router_vars == <<pc, request, response>>

(***************************************************************************)
(* ModelManager.  Every method is an operator from the instance's fields   *)
(* to the fields after the call, the returned value and the printed lines. *)
(***************************************************************************)
ModelManager(init_quick) ==
    [self |-> [current_model  |-> None,
               semantic_model |-> None,
               pii_model      |-> None,
               is_loaded      |-> TRUE],
     ret  |-> None,
     out  |-> IF ~init_quick
              THEN <<"ModelManager initialized (lightweight mode - no heavy models)">>
              ELSE <<>>]

\* Mutation of _unload_all_models: unloading also marks the manager not loaded.
_unload_all_models_not_loaded(self) ==
    [self EXCEPT !.semantic_model = None,
                 !.pii_model = None,
                 !.current_model = None,
                 !.is_loaded = FALSE]

_unload_all_models(self) ==
    LET s1 == IF self.semantic_model # None
              THEN [self EXCEPT !.semantic_model = None]
              ELSE self
        s2 == IF s1.pii_model # None
              THEN [s1 EXCEPT !.pii_model = None]
              ELSE s1
    IN  [s2 EXCEPT !.current_model = None]

\* Mutation of get_semantic_model: the model is loaded on first use.
get_semantic_model_lazy(self) ==
    [self |-> [self EXCEPT !.semantic_model = "SentenceTransformer",
                           !.current_model = "semantic_search"],
     ret  |-> "SentenceTransformer",
     out  |-> <<"Loading semantic search model...">>]

get_semantic_model(self) ==
    [self |-> self,
     ret  |-> None,
     out  |-> <<"Semantic search model disabled (memory optimization for 512MB limit)",
                "   Falling back to keyword-based search in backend">>]

get_pii_model(self) ==
    [self |-> self,
     ret  |-> None,
     out  |-> <<"spaCy PII model disabled (memory optimization for 512MB limit)",
                "   Using regex-based PII detection instead">>]

\* Mutation of load: is_loaded is flipped instead of set.
load_toggle(self) ==
    [self |-> [self EXCEPT !.is_loaded = ~self.is_loaded],
     ret  |-> None,
     out  |-> <<"ModelManager ready (lightweight mode)">>]

load(self) ==
    [self |-> [self EXCEPT !.is_loaded = TRUE],
     ret  |-> None,
     out  |-> <<"ModelManager ready (lightweight mode)">>]

cleanup(self) ==
    [self |-> _unload_all_models(self),
     ret  |-> None,
     out  |-> <<"Cleaning up models...", "Cleanup complete">>]

\* The calls of the methods on the process's instance.
Load ==
    LET result == load(model_manager)
    IN  /\ model_manager' = result.self
        /\ returned' = [op |-> "load", ret |-> result.ret, out |-> result.out]
        /\ UNCHANGED router_vars

Cleanup ==
    LET result == cleanup(model_manager)
    IN  /\ model_manager' = result.self
        /\ returned' = [op |-> "cleanup", ret |-> result.ret, out |-> result.out]
        /\ UNCHANGED router_vars

GetSemanticModel ==
    LET result == get_semantic_model(model_manager)
    IN  /\ model_manager' = result.self
        /\ returned' = [op |-> "get_semantic_model",
                        ret |-> result.ret, out |-> result.out]
        /\ UNCHANGED router_vars

GetPiiModel ==
    LET result == get_pii_model(model_manager)
    IN  /\ model_manager' = result.self
        /\ returned' = [op |-> "get_pii_model",
                        ret |-> result.ret, out |-> result.out]
        /\ UNCHANGED router_vars

(***************************************************************************)
(* Request router.                                                         *)
(***************************************************************************)
\* FileData records of a SearchRequest.
FileDatas ==
    { [id |-> "f1", name |-> "report.pdf", description |-> None] }

\* threshold is a float in the code; here in hundredths (the default 0.3
\* is 30, and 150 is outside [0,1]).  The requests are one with the default
\* threshold and top_k, the ones that differ from it in one field, and one
\* that differs in all.
SearchRequests ==
    LET usual == [query |-> "budget",
                  files |-> <<CHOOSE f \in FileDatas : TRUE>>,
                  threshold |-> 30,
                  top_k |-> 10]
    IN  { usual,
          [usual EXCEPT !.query = ""],
          [usual EXCEPT !.files = <<>>],
          [usual EXCEPT !.threshold = 150],
          [usual EXCEPT !.top_k = 0],
          [query |-> "", files |-> <<>>, threshold |-> 150, top_k |-> 0] }

GenerateEmbeddingRequests == [text : {"", "some text"}]

HTTPException(status_code, detail) ==
    [outcome |-> "HTTPException", status_code |-> status_code, detail |-> detail]

\* Mutation of semantic_search: a request without files gets an empty result.
semantic_search_empty_ok(req) ==
    IF req.files = <<>>
    THEN [outcome |-> "return", status_code |-> 200, body |-> [results |-> <<>>]]
    ELSE HTTPException(503,
             "Semantic search is disabled (memory optimization for 512MB limit). Using keyword search instead.")

semantic_search(req) ==
    HTTPException(503,
        "Semantic search is disabled (memory optimization for 512MB limit). Using keyword search instead.")

\* Mutation of generate_embedding: the detail is the one of semantic_search.
generate_embedding_search_detail(req) ==
    HTTPException(503,
        "Semantic search is disabled (memory optimization for 512MB limit). Using keyword search instead.")

generate_embedding(req) ==
    HTTPException(503,
        "Embedding generation is disabled (memory optimization for 512MB limit).")

(***************************************************************************)
(* generate_tags: characters, str.lower and str.endswith.                  *)
(***************************************************************************)
Capitals ==
    <<"A", "B", "C", "D", "E", "F", "G", "H", "I", "J", "K", "L", "M",
      "N", "O", "P", "Q", "R", "S", "T", "U", "V", "W", "X", "Y", "Z">>

Letters ==
    <<"a", "b", "c", "d", "e", "f", "g", "h", "i", "j", "k", "l", "m",
      "n", "o", "p", "q", "r", "s", "t", "u", "v", "w", "x", "y", "z">>

\* The lowercase mapping of one character: ascii_lower for A-Z.  Outside ASCII it can change the
\* character's class or the length: the Kelvin sign U+212A maps to "k" and
\* the dotted capital I U+0130 to "i" followed by the combining dot U+0307.
ascii_lower ==
    [c \in {Capitals[i] : i \in 1..26} |->
        Letters[CHOOSE i \in 1..26 : Capitals[i] = c]]

lower_char(c) ==
    IF c \in DOMAIN ascii_lower THEN <<ascii_lower[c]>>
    ELSE IF c = "U+212A" THEN <<"k">>
    ELSE IF c = "U+0130" THEN <<"i", "U+0307">>
    ELSE <<c>>

RECURSIVE lower(_)
\* str.lower()
lower(s) ==
    IF s = <<>> THEN <<>> ELSE lower_char(Head(s)) \o lower(Tail(s))

\* str.endswith(tuple of suffixes)
endswith(s, suffixes) ==
    \E i \in 1..Len(suffixes) :
        LET suffix == suffixes[i]
        IN  /\ Len(s) >= Len(suffix)
            /\ SubSeq(s, Len(s) - Len(suffix) + 1, Len(s)) = suffix

\* The suffix literals of the endswith tuples, in the order of the code.
dot_pdf == <<".", "p", "d", "f">>

dot_doc == <<".", "d", "o", "c">>

dot_docx == <<".", "d", "o", "c", "x">>

dot_xls == <<".", "x", "l", "s">>

dot_xlsx == <<".", "x", "l", "s", "x">>

dot_csv == <<".", "c", "s", "v">>

dot_ppt == <<".", "p", "p", "t">>

dot_pptx == <<".", "p", "p", "t", "x">>

dot_jpg == <<".", "j", "p", "g">>

dot_jpeg == <<".", "j", "p", "e", "g">>

dot_png == <<".", "p", "n", "g">>

dot_gif == <<".", "g", "i", "f">>

dot_webp == <<".", "w", "e", "b", "p">>

dot_bmp == <<".", "b", "m", "p">>

dot_mp4 == <<".", "m", "p", "4">>

dot_avi == <<".", "a", "v", "i">>

dot_mov == <<".", "m", "o", "v">>

dot_mkv == <<".", "m", "k", "v">>

dot_mp3 == <<".", "m", "p", "3">>

dot_wav == <<".", "w", "a", "v">>

dot_ogg == <<".", "o", "g", "g">>

dot_flac == <<".", "f", "l", "a", "c">>

dot_zip == <<".", "z", "i", "p">>

dot_rar == <<".", "r", "a", "r">>

dot_7z == <<".", "7", "z">>

dot_tar == <<".", "t", "a", "r">>

dot_gz == <<".", "g", "z">>

dot_py == <<".", "p", "y">>

dot_js == <<".", "j", "s">>

dot_ts == <<".", "t", "s">>

dot_java == <<".", "j", "a", "v", "a">>

dot_cpp == <<".", "c", "p", "p">>

\* Mutation of dot_c: the suffix without its dot.
dot_c_no_dot == <<"c">>

dot_c == <<".", "c">>

dot_h == <<".", "h">>

dot_txt == <<".", "t", "x", "t">>

dot_md == <<".", "m", "d">>

dot_json == <<".", "j", "s", "o", "n">>

dot_xml == <<".", "x", "m", "l">>

dot_yaml == <<".", "y", "a", "m", "l">>

dot_yml == <<".", "y", "m", "l">>

\* The if/elif chain as data: the endswith tuple of each branch and the tags
\* its body appends, in the order of the code.
branches ==
    << [suffixes |-> <<dot_pdf>>,
        appends  |-> <<"document">>],
       [suffixes |-> <<dot_doc, dot_docx>>,
        appends  |-> <<"document", "word">>],
       [suffixes |-> <<dot_xls, dot_xlsx, dot_csv>>,
        appends  |-> <<"spreadsheet", "data">>],
       [suffixes |-> <<dot_ppt, dot_pptx>>,
        appends  |-> <<"presentation">>],
       [suffixes |-> <<dot_jpg, dot_jpeg, dot_png, dot_gif, dot_webp, dot_bmp>>,
        appends  |-> <<"image">>],
       [suffixes |-> <<dot_mp4, dot_avi, dot_mov, dot_mkv>>,
        appends  |-> <<"video">>],
       [suffixes |-> <<dot_mp3, dot_wav, dot_ogg, dot_flac>>,
        appends  |-> <<"audio">>],
       [suffixes |-> <<dot_zip, dot_rar, dot_7z, dot_tar, dot_gz>>,
        appends  |-> <<"archive">>],
       [suffixes |-> <<dot_py, dot_js, dot_ts, dot_java, dot_cpp, dot_c, dot_h>>,
        appends  |-> <<"code", "technical">>],
       [suffixes |-> <<dot_txt, dot_md>>,
        appends  |-> <<"text">>],
       [suffixes |-> <<dot_json, dot_xml, dot_yaml, dot_yml>>,
        appends  |-> <<"data", "technical">>] >>

\* The order in which the code evaluates the branches.
code_order == [i \in 1..Len(branches) |-> i]

RECURSIVE extend(_, _)
\* tags.append(t) for every t the branch body appends.
extend(tags, appends) ==
    IF appends = <<>> THEN tags
    ELSE extend(Append(tags, Head(appends)), Tail(appends))

RECURSIVE if_chain(_, _, _)
\* Mutation of elif_chain: every branch is an if of its own and the else
\* belongs to the last one.
if_chain(filename, tags, order) ==
    IF order = <<>> THEN tags
    ELSE IF endswith(filename, branches[Head(order)].suffixes)
         THEN if_chain(filename, extend(tags, branches[Head(order)].appends), Tail(order))
         ELSE IF Len(order) = 1
              THEN Append(tags, "other")
              ELSE if_chain(filename, tags, Tail(order))

RECURSIVE elif_chain_no_else(_, _, _)
\* Mutation of elif_chain: the else branch is missing.
elif_chain_no_else(filename, tags, order) ==
    IF order = <<>> THEN tags
    ELSE IF endswith(filename, branches[Head(order)].suffixes)
         THEN extend(tags, branches[Head(order)].appends)
         ELSE elif_chain_no_else(filename, tags, Tail(order))

RECURSIVE elif_chain(_, _, _)
\* if / elif ... / else over the branches taken in the given order.
elif_chain(filename, tags, order) ==
    IF order = <<>> THEN Append(tags, "other")
    ELSE IF endswith(filename, branches[Head(order)].suffixes)
         THEN extend(tags, branches[Head(order)].appends)
         ELSE elif_chain(filename, tags, Tail(order))

\* Mutation of generate_tags: the filename is not lowercased.
generate_tags_no_lower(req) ==
    LET filename == req.filename
        tags == <<>>
    IN  [outcome |-> "return",
         status_code |-> 200,
         body |-> [tags |-> elif_chain(filename, tags, code_order)]]

generate_tags(req) ==
    LET filename == lower(req.filename)
        tags == <<>>
    IN  [outcome |-> "return",
         status_code |-> 200,
         body |-> [tags |-> elif_chain(filename, tags, code_order)]]

(***************************************************************************)
(* Requests.                                                               *)
(***************************************************************************)
\* "report.PDF", "notes", "script.py", "archive.tar.gz"
SomeFilenames ==
    { <<"r", "e", "p", "o", "r", "t", ".", "P", "D", "F">>,
      <<"n", "o", "t", "e", "s">>,
      <<"s", "c", "r", "i", "p", "t", ".", "p", "y">>,
      <<"a", "r", "c", "h", "i", "v", "e", ".", "t", "a", "r", ".", "g", "z">> }

GenerateTagsRequests == [filename : SomeFilenames, content_preview : {None}]

\* What the framework hands to a handler: the route and the parsed body.
Requests ==
    [endpoint : {"/search"}, body : SearchRequests]
    \cup [endpoint : {"/generate-embedding"}, body : GenerateEmbeddingRequests]
    \cup [endpoint : {"/generate-tags"}, body : GenerateTagsRequests]

\* Filenames for the tag rules: up to MaxStems stems followed by an ending.
MaxStems == 2

Stems ==
    { <<"x">>, <<"r", "e", "p", "o", "r", "t">>, <<"n", "o", "t", "e", "s">>,
      <<"a", "r", "c", "h", "i", "v", "e">>, <<"s", "c", "r", "i", "p", "t">>,
      <<".", "t", "a", "r">>, <<".">>, <<".", "p", "d", "f">>, <<".", "C">> }

Endings ==
    { <<".", "p", "d", "f">>, <<".", "d", "o", "c">>,
      <<".", "d", "o", "c", "x">>, <<".", "x", "l", "s">>,
      <<".", "x", "l", "s", "x">>, <<".", "c", "s", "v">>,
      <<".", "p", "p", "t">>, <<".", "p", "p", "t", "x">>,
      <<".", "j", "p", "g">>, <<".", "j", "p", "e", "g">>,
      <<".", "p", "n", "g">>, <<".", "g", "i", "f">>,
      <<".", "w", "e", "b", "p">>, <<".", "b", "m", "p">>,
      <<".", "m", "p", "4">>, <<".", "a", "v", "i">>, <<".", "m", "o", "v">>,
      <<".", "m", "k", "v">>, <<".", "m", "p", "3">>, <<".", "w", "a", "v">>,
      <<".", "o", "g", "g">>, <<".", "f", "l", "a", "c">>,
      <<".", "z", "i", "p">>, <<".", "r", "a", "r">>, <<".", "7", "z">>,
      <<".", "t", "a", "r">>, <<".", "g", "z">>, <<".", "p", "y">>,
      <<".", "j", "s">>, <<".", "t", "s">>, <<".", "j", "a", "v", "a">>,
      <<".", "c", "p", "p">>, <<".", "c">>, <<".", "h">>,
      <<".", "t", "x", "t">>, <<".", "m", "d">>, <<".", "j", "s", "o", "n">>,
      <<".", "x", "m", "l">>, <<".", "y", "a", "m", "l">>,
      <<".", "y", "m", "l">>, <<".", "P", "D", "F">>, <<".", "D", "O", "C">>,
      <<".", "D", "O", "C", "X">>, <<".", "X", "L", "S">>,
      <<".", "X", "L", "S", "X">>, <<".", "C", "S", "V">>,
      <<".", "P", "P", "T">>, <<".", "P", "P", "T", "X">>,
      <<".", "J", "P", "G">>, <<".", "J", "P", "E", "G">>,
      <<".", "P", "N", "G">>, <<".", "G", "I", "F">>,
      <<".", "W", "E", "B", "P">>, <<".", "B", "M", "P">>,
      <<".", "M", "P", "4">>, <<".", "A", "V", "I">>, <<".", "M", "O", "V">>,
      <<".", "M", "K", "V">>, <<".", "M", "P", "3">>, <<".", "W", "A", "V">>,
      <<".", "O", "G", "G">>, <<".", "F", "L", "A", "C">>,
      <<".", "Z", "I", "P">>, <<".", "R", "A", "R">>, <<".", "7", "Z">>,
      <<".", "T", "A", "R">>, <<".", "G", "Z">>, <<".", "P", "Y">>,
      <<".", "J", "S">>, <<".", "T", "S">>, <<".", "J", "A", "V", "A">>,
      <<".", "C", "P", "P">>, <<".", "C">>, <<".", "H">>,
      <<".", "T", "X", "T">>, <<".", "M", "D">>, <<".", "J", "S", "O", "N">>,
      <<".", "X", "M", "L">>, <<".", "Y", "A", "M", "L">>,
      <<".", "Y", "M", "L">>, <<>>, <<"n", "o", "t", "e", "s">>, <<"c">>,
      <<"h">>, <<"p", "d", "f">>, <<"g", "z">>, <<"o", "c">>, <<".">>,
      <<".", "p", "d", "f", " ">>, <<".", "p", "d", "f", "x">>,
      <<".", "D", "o", "c">>, <<".", "j", "P", "e", "G">>,
      <<".", "m", "U+212A", "v">>, <<".", "g", "U+0130", "f">>,
      <<".", "t", "a", "r", ".", "g", "z">>, <<"R", "E", "A", "D", "M", "E">>,
      <<".", "G", "Z", ".", "b", "a", "k">> }

RECURSIVE StemPrefixes(_)
StemPrefixes(n) ==
    IF n = 0 THEN {<<>>}
    ELSE LET shorter == StemPrefixes(n - 1)
         IN  shorter \cup {p \o s : p \in shorter, s \in Stems}

Filenames == {p \o e : p \in StemPrefixes(MaxStems), e \in Endings}

(***************************************************************************)
(* Router actions.  A request is received in a free slot, its handler      *)
(* runs, and the response is sent.  Handlers contain no await, so each     *)
(* runs in one step; requests are handled in any order.                    *)
(***************************************************************************)
receive(r) ==
    /\ pc[r] = "idle"
    /\ \E req \in Requests : request' = [request EXCEPT ![r] = req]
    /\ pc' = [pc EXCEPT ![r] = "received"]
    /\ UNCHANGED <<response, model_manager, returned>>

\* Mutation of post_search: the handler asks the ModelManager of the
\* application for the semantic model before it answers.
post_search_with_model(r) ==
    /\ pc[r] = "received"
    /\ request[r].endpoint = "/search"
    /\ model_manager' = [model_manager EXCEPT !.current_model = "semantic_search"]
    /\ returned' = [op |-> "get_semantic_model", ret |-> None, out |-> <<>>]
    /\ response' = [response EXCEPT ![r] = semantic_search(request[r].body)]
    /\ pc' = [pc EXCEPT ![r] = "done"]
    /\ UNCHANGED request

post_search(r) ==
    /\ pc[r] = "received"
    /\ request[r].endpoint = "/search"
    /\ response' = [response EXCEPT ![r] = semantic_search(request[r].body)]
    /\ pc' = [pc EXCEPT ![r] = "done"]
    /\ UNCHANGED <<request, model_manager, returned>>

post_generate_embedding(r) ==
    /\ pc[r] = "received"
    /\ request[r].endpoint = "/generate-embedding"
    /\ response' = [response EXCEPT ![r] = generate_embedding(request[r].body)]
    /\ pc' = [pc EXCEPT ![r] = "done"]
    /\ UNCHANGED <<request, model_manager, returned>>

post_generate_tags(r) ==
    /\ pc[r] = "received"
    /\ request[r].endpoint = "/generate-tags"
    /\ response' = [response EXCEPT ![r] = generate_tags(request[r].body)]
    /\ pc' = [pc EXCEPT ![r] = "done"]
    /\ UNCHANGED <<request, model_manager, returned>>

respond(r) ==
    /\ pc[r] = "done"
    /\ pc' = [pc EXCEPT ![r] = "idle"]
    /\ request' = [request EXCEPT ![r] = None]
    /\ response' = [response EXCEPT ![r] = None]
    /\ UNCHANGED <<model_manager, returned>>

(***************************************************************************)
(* The service: one ModelManager, NumRequests request slots.               *)
(***************************************************************************)
Construct(init_quick) ==
    LET result == ModelManager(init_quick)
    IN  /\ model_manager = result.self
        /\ returned = [op |-> "__init__", ret |-> result.ret, out |-> result.out]

Init ==
    /\ \E init_quick \in BOOLEAN : Construct(init_quick)
    /\ pc = [r \in Slots |-> "idle"]
    /\ request = [r \in Slots |-> None]
    /\ response = [r \in Slots |-> None]

Next ==
    \/ Load
    \/ Cleanup
    \/ GetSemanticModel
    \/ GetPiiModel
    \/ \E r \in Slots : receive(r)
    \/ \E r \in Slots : post_search(r)
    \/ \E r \in Slots : post_generate_embedding(r)
    \/ \E r \in Slots : post_generate_tags(r)
    \/ \E r \in Slots : respond(r)

Spec == Init /\ [][Next]_vars

(***************************************************************************)
(* generate_tags on its own: one request with any filename of Filenames.   *)
(***************************************************************************)
InitTags ==
    /\ Construct(FALSE)
    /\ pc = [r \in Slots |-> IF r = 1 THEN "received" ELSE "idle"]
    /\ \E f \in Filenames :
          request = [r \in Slots |->
                        IF r = 1
                        THEN [endpoint |-> "/generate-tags",
                              body |-> [filename |-> f, content_preview |-> None]]
                        ELSE None]
    /\ response = [r \in Slots |-> None]

NextTags ==
    \/ \E r \in Slots : post_generate_tags(r)
    \/ \E r \in Slots : respond(r)

SpecTags == InitTags /\ [][NextTags]_vars

(***************************************************************************)
(* Properties of the disabled endpoints.                                   *)
(***************************************************************************)
Unavailable(detail) ==
    [outcome |-> "HTTPException", status_code |-> 503, detail |-> detail]

SearchDisabled ==
    Unavailable("Semantic search is disabled (memory optimization for 512MB limit). Using keyword search instead.")

EmbeddingDisabled ==
    Unavailable("Embedding generation is disabled (memory optimization for 512MB limit).")

Handled(r, endpoint) == pc[r] = "done" /\ request[r].endpoint = endpoint

\* C1: every search request, whatever its query, files, threshold and top_k,
\* ends in the ServiceUnavailable outcome with status 503 and the fixed
\* disabled-search detail; it never returns a success result.
C1_SearchAlwaysUnavailable ==
    /\ \A req \in SearchRequests : semantic_search(req) = SearchDisabled
    /\ \A r \in Slots : Handled(r, "/search") => response[r] = SearchDisabled

\* A search with no files and a threshold outside [0,1] has been answered.
C1_Witness ==
    \E r \in Slots :
        /\ Handled(r, "/search")
        /\ request[r].body.files = <<>>
        /\ request[r].body.threshold = 150
        /\ response[r].status_code = 503

\* C2: every embedding request ends in the ServiceUnavailable outcome with
\* status 503 and the fixed disabled-embedding detail, which differs from the
\* detail of search; it never returns a success result.
C2_EmbeddingAlwaysUnavailable ==
    /\ \A req \in GenerateEmbeddingRequests : generate_embedding(req) = EmbeddingDisabled
    /\ \A r \in Slots :
          Handled(r, "/generate-embedding") => response[r] = EmbeddingDisabled
    /\ \A e \in GenerateEmbeddingRequests, s \in SearchRequests :
          generate_embedding(e).detail # semantic_search(s).detail

\* An embedding request with a non-empty text has been answered.
C2_Witness ==
    \E r \in Slots :
        /\ Handled(r, "/generate-embedding")
        /\ request[r].body.text = "some text"
        /\ response[r].outcome = "HTTPException"

(***************************************************************************)
(* Properties of generate_tags, against the table of suffix groups.        *)
(***************************************************************************)
SuffixTable ==
    << [suffixes |-> {<<".", "p", "d", "f">>},
        tags     |-> <<"document">>],
       [suffixes |-> {<<".", "d", "o", "c">>, <<".", "d", "o", "c", "x">>},
        tags     |-> <<"document", "word">>],
       [suffixes |-> {<<".", "x", "l", "s">>,
                      <<".", "x", "l", "s", "x">>,
                      <<".", "c", "s", "v">>},
        tags     |-> <<"spreadsheet", "data">>],
       [suffixes |-> {<<".", "p", "p", "t">>, <<".", "p", "p", "t", "x">>},
        tags     |-> <<"presentation">>],
       [suffixes |-> {<<".", "j", "p", "g">>,
                      <<".", "j", "p", "e", "g">>,
                      <<".", "p", "n", "g">>,
                      <<".", "g", "i", "f">>,
                      <<".", "w", "e", "b", "p">>,
                      <<".", "b", "m", "p">>},
        tags     |-> <<"image">>],
       [suffixes |-> {<<".", "m", "p", "4">>,
                      <<".", "a", "v", "i">>,
                      <<".", "m", "o", "v">>,
                      <<".", "m", "k", "v">>},
        tags     |-> <<"video">>],
       [suffixes |-> {<<".", "m", "p", "3">>,
                      <<".", "w", "a", "v">>,
                      <<".", "o", "g", "g">>,
                      <<".", "f", "l", "a", "c">>},
        tags     |-> <<"audio">>],
       [suffixes |-> {<<".", "z", "i", "p">>,
                      <<".", "r", "a", "r">>,
                      <<".", "7", "z">>,
                      <<".", "t", "a", "r">>,
                      <<".", "g", "z">>},
        tags     |-> <<"archive">>],
       [suffixes |-> {<<".", "p", "y">>,
                      <<".", "j", "s">>,
                      <<".", "t", "s">>,
                      <<".", "j", "a", "v", "a">>,
                      <<".", "c", "p", "p">>,
                      <<".", "c">>,
                      <<".", "h">>},
        tags     |-> <<"code", "technical">>],
       [suffixes |-> {<<".", "t", "x", "t">>, <<".", "m", "d">>},
        tags     |-> <<"text">>],
       [suffixes |-> {<<".", "j", "s", "o", "n">>,
                      <<".", "x", "m", "l">>,
                      <<".", "y", "a", "m", "l">>,
                      <<".", "y", "m", "l">>},
        tags     |-> <<"data", "technical">>] >>

\* The groups of the table with a suffix the (lowercased) filename ends with.
MatchingGroups(filename) ==
    {g \in 1..Len(SuffixTable) :
        \E s \in SuffixTable[g].suffixes : endswith(filename, <<s>>)}

Min(S) == CHOOSE m \in S : \A n \in S : m <= n

Returned(r, tags) ==
    /\ response[r].outcome = "return"
    /\ response[r].body.tags = tags

\* C3: the result is exactly the tag sequence of the first group of the
\* table, in table order, that has a suffix the lowercased filename ends
\* with; nothing of another group is added.
C3_FirstGroupDecides ==
    \A r \in Slots :
        Handled(r, "/generate-tags") =>
            LET groups == MatchingGroups(lower(request[r].body.filename))
            IN  groups # {} => Returned(r, SuffixTable[Min(groups)].tags)

\* "archive.tar.gz" has been tagged ["archive"].
C3_Witness ==
    \E r \in Slots :
        /\ Handled(r, "/generate-tags")
        /\ request[r].body.filename =
              <<"a", "r", "c", "h", "i", "v", "e", ".", "t", "a", "r", ".", "g", "z">>
        /\ Returned(r, <<"archive">>)

\* C4: generate_tags has no error outcome and never returns an empty list;
\* a filename whose lowercase form ends with no suffix of the table gets
\* exactly ["other"].
C4_NeverEmpty ==
    \A r \in Slots :
        Handled(r, "/generate-tags") =>
            /\ response[r].outcome = "return"
            /\ Len(response[r].body.tags) >= 1
            /\ MatchingGroups(lower(request[r].body.filename)) = {}
                  => Returned(r, <<"other">>)

\* The empty filename has been tagged ["other"].
C4_Witness ==
    \E r \in Slots :
        /\ Handled(r, "/generate-tags")
        /\ request[r].body.filename = <<>>
        /\ Returned(r, <<"other">>)

\* C5: a filename and its lowercase form receive the same tags.
C5_CaseInsensitive ==
    \A r \in Slots :
        Handled(r, "/generate-tags") =>
            response[r] =
                generate_tags([request[r].body EXCEPT
                                  !.filename = lower(request[r].body.filename)])

\* "report.PDF" has been tagged ["document"].
C5_Witness ==
    \E r \in Slots :
        /\ Handled(r, "/generate-tags")
        /\ request[r].body.filename = <<"r", "e", "p", "o", "r", "t", ".", "P", "D", "F">>
        /\ Returned(r, <<"document">>)

\* The branches of the code whose condition holds of a lowercased filename.
MatchingBranches(filename) ==
    {b \in 1..Len(branches) : endswith(filename, branches[b].suffixes)}

\* The order of the code with branch b moved to the front.
MoveToFront(b) ==
    <<b>> \o SelectSeq(code_order, LAMBDA i : i # b)

Reversed == [i \in 1..Len(branches) |-> Len(branches) + 1 - i]

OtherOrders == {Reversed} \cup {MoveToFront(b) : b \in 1..Len(branches)}

\* No suffix of one branch ends with a suffix of another branch.
NoSuffixOfAnother ==
    \A a, b \in 1..Len(branches) :
        a # b => \A i \in 1..Len(branches[a].suffixes) :
                     ~endswith(branches[a].suffixes[i], branches[b].suffixes)

\* C10: no suffix of one branch is a suffix of a suffix of another branch,
\* at most one branch matches a filename, and evaluating the branches in
\* another order gives the same tags.
C10_GroupsDisjoint ==
    /\ NoSuffixOfAnother
    /\ \A r \in Slots :
          Handled(r, "/generate-tags") =>
              LET filename == lower(request[r].body.filename)
              IN  /\ Cardinality(MatchingBranches(filename)) <= 1
                  /\ \A order \in OtherOrders :
                        Returned(r, elif_chain(filename, <<>>, order))

\* "x.doc", which ends with "c" but not with ".c", has been tagged.
C10_Witness ==
    \E r \in Slots :
        /\ Handled(r, "/generate-tags")
        /\ request[r].body.filename = <<"x", ".", "d", "o", "c">>
        /\ Returned(r, <<"document", "word">>)

(***************************************************************************)
(* Properties of the ModelManager.                                         *)
(***************************************************************************)
\* C6: in every state reached by load, cleanup and accessor calls, both
\* accessors return None and leave every field of the instance as it was.
C6_AccessorsReturnNone ==
    /\ get_semantic_model(model_manager).ret = None
    /\ get_semantic_model(model_manager).self = model_manager
    /\ get_pii_model(model_manager).ret = None
    /\ get_pii_model(model_manager).self = model_manager
    /\ returned.op \in {"get_semantic_model", "get_pii_model"} => returned.ret = None

\* get_pii_model has been called and returned None.
C6_Witness ==
    /\ returned.op = "get_pii_model"
    /\ returned.ret = None
    /\ Len(returned.out) = 2

\* C7: is_loaded is true and current_model is None in every reachable state,
\* and the instance constructed with init_quick is the one constructed
\* without it.
C7_AlwaysLoadedNoModel ==
    /\ model_manager.is_loaded = TRUE
    /\ model_manager.current_model = None
    /\ ModelManager(TRUE).self = ModelManager(FALSE).self

\* cleanup has been called and is_loaded is still true.
C7_Witness ==
    /\ returned.op = "cleanup"
    /\ model_manager.is_loaded = TRUE

Clean(self) ==
    /\ self.current_model = None
    /\ self.semantic_model = None
    /\ self.pii_model = None

\* C8: from every reachable state, cleanup twice leaves the fields that
\* cleanup once leaves, the same for load, and cleanup of a clean instance
\* changes no field.
C8_Idempotent ==
    /\ cleanup(cleanup(model_manager).self).self = cleanup(model_manager).self
    /\ load(load(model_manager).self).self = load(model_manager).self
    /\ Clean(model_manager) => cleanup(model_manager).self = model_manager

\* load has been called on a clean instance.
C8_Witness ==
    /\ returned.op = "load"
    /\ Clean(model_manager)

(***************************************************************************)
(* Independence of the router operations.                                  *)
(***************************************************************************)
\* The response to a request handled alone.
Alone(req) ==
    CASE req.endpoint = "/search" -> semantic_search(req.body)
      [] req.endpoint = "/generate-embedding" -> generate_embedding(req.body)
      [] req.endpoint = "/generate-tags" -> generate_tags(req.body)

\* The handler of the request in slot r can run.
CanRun(r) ==
    ENABLED (post_search(r) \/ post_generate_embedding(r) \/ post_generate_tags(r))

\* C9: whatever else is in flight, a response is the response to the request
\* handled alone, a received request can be handled at once, and no step of
\* the router touches the ModelManager.
C9_RouterIndependent ==
    /\ [](\A r \in Slots : pc[r] = "done" => response[r] = Alone(request[r]))
    /\ [](\A r \in Slots : pc[r] = "received" => CanRun(r))
    /\ [][pc' # pc => UNCHANGED <<model_manager, returned>>]_vars

\* Two requests have been answered while both were in flight.
C9_Witness ==
    \E r, s \in Slots :
        /\ r # s
        /\ Handled(r, "/generate-tags")
        /\ Handled(s, "/search")
        /\ returned.op = "cleanup"

====
